---- MODULE Spec2Model ----
(***************************************************************************)
(* A model of three parts of the package:                                  *)
(*   - the change log (changes.go): Changes, AssocChanges, Change;         *)
(*   - the query descriptor builder (query.go): Query and its methods;     *)
(*   - the association preload engine (query.go): traversePreloadTarget,   *)
(*     getPreloadInfo, collectPreloadTarget and the Preload driver.        *)
(* Each part has its own specification (SpecChanges, SpecQuery, ...) over   *)
(* the variables it owns; the other variables stay as Init left them.      *)
(***************************************************************************)
EXTENDS Integers, Sequences, FiniteSets, TLC

VARIABLES
    changes,    \* the Changes log under test (changes.go:27-33)
    hist,       \* ghost: the Change values applied to the log by Set, in order
    last,       \* ghost: the last operation applied to the log
    q,          \* the Query descriptors the caller holds, by register
    heap,       \* backing arrays of slices and the maps, shared by reference
    call,       \* ghost: the last builder call made
    budget,     \* builder calls the caller may still make
    graph,      \* the record graph Preload works on: the root and the pointees
    pcall,      \* ghost: the last Preload call, its inputs and its outcome
    pleft       \* Preload calls the caller may still make

changesVars == <<changes, hist, last>>
queryVars == <<q, heap, call, budget>>

preloadVars == <<graph, pcall, pleft>>

vars == <<changes, hist, last, q, heap, call, budget, graph, pcall, pleft>>

(***************************************************************************)
(* Go values.                                                              *)
(***************************************************************************)

\* interface{} values used as Change.Value, tagged by dynamic type.
StrV(s) == [kind |-> "string", s |-> s, n |-> 0, args |-> <<>>]
IntV(n) == [kind |-> "int", s |-> "", n |-> n, args |-> <<>>]
ArgsV(a) == [kind |-> "[]interface{}", s |-> "", n |-> 0, args |-> a]
NilV == [kind |-> "nil", s |-> "", n |-> 0, args |-> <<>>]

\* A Go slice value where only nil-ness and contents matter.
NilSlice == [isNil |-> TRUE, elems |-> <<>>]
SliceOf(s) == [isNil |-> FALSE, elems |-> s]
\* A variadic parameter: nil when no argument is passed.
Variadic(s) == IF s = <<>> THEN NilSlice ELSE SliceOf(s)

\* s[i] for a 0-based index i, as Go indexes.
At(s, i) == s[i + 1]

\* A Go map as a function on its key set.
EmptyMap == <<>>
HasKey(m, k) == k \in DOMAIN m
MapPut(m, k, v) == [x \in (DOMAIN m) \cup {k} |-> IF x = k THEN v ELSE m[x]]

(***************************************************************************)
(* changes.go                                                              *)
(***************************************************************************)

ChangeSetOp == 0
ChangeIncOp == 1
ChangeDecOp == 2
ChangeFragmentOp == 3

Set(field, value) == [Type |-> ChangeSetOp, Field |-> field, Value |-> value]
IncBy(field, n) == [Type |-> ChangeIncOp, Field |-> field, Value |-> IntV(n)]
Inc(field) == IncBy(field, 1)
DecBy(field, n) == [Type |-> ChangeDecOp, Field |-> field, Value |-> IntV(n)]
Dec(field) == DecBy(field, 1)
ChangeFragment(raw, args) ==
    [Type |-> ChangeFragmentOp, Field |-> raw, Value |-> ArgsV(args)]

\* The zero Change{} and the zero AssocChanges{}.
ZeroChange == [Type |-> ChangeSetOp, Field |-> "", Value |-> NilV]
ZeroAssocChanges == [Changes |-> NilSlice, StaleIDs |-> NilSlice]

\* The log BuildChanges starts from: two empty maps, two nil slices.
NewChanges ==
    [Fields |-> EmptyMap, Changes |-> <<>>, Assoc |-> EmptyMap, AssocChanges |-> <<>>]

Empty(c) == Len(c.Changes) = 0

Get(c, field) ==
    IF HasKey(c.Fields, field)
    THEN [change |-> At(c.Changes, c.Fields[field]), ok |-> TRUE]
    ELSE [change |-> ZeroChange, ok |-> FALSE]

\* A plausible slip: always append, never overwrite in place.
ChangesSetAlwaysAppend(c, ch) ==
    [c EXCEPT !.Fields = MapPut(c.Fields, ch.Field, Len(c.Changes)),
              !.Changes = Append(c.Changes, ch)]

\* A plausible slip: a present field keeps its first Change.
ChangesSetKeepFirst(c, ch) ==
    IF HasKey(c.Fields, ch.Field)
    THEN c
    ELSE [c EXCEPT !.Fields = MapPut(c.Fields, ch.Field, Len(c.Changes)),
                   !.Changes = Append(c.Changes, ch)]

ChangesSet(c, ch) ==
    IF HasKey(c.Fields, ch.Field)
    THEN [c EXCEPT !.Changes[c.Fields[ch.Field] + 1] = ch]
    ELSE [c EXCEPT !.Fields = MapPut(c.Fields, ch.Field, Len(c.Changes)),
                   !.Changes = Append(c.Changes, ch)]

GetValue(c, field) ==
    LET r == Get(c, field) IN [value |-> r.change.Value, ok |-> r.ok]

SetValue(c, field, value) == ChangesSet(c, Set(field, value))

GetAssoc(c, field) ==
    IF HasKey(c.Assoc, field)
    THEN [assoc |-> At(c.AssocChanges, c.Assoc[field]), ok |-> TRUE]
    ELSE [assoc |-> ZeroAssocChanges, ok |-> FALSE]

appendAssoc(c, field, ac) ==
    [c EXCEPT !.Assoc = MapPut(c.Assoc, field, Len(c.AssocChanges)),
              !.AssocChanges = Append(c.AssocChanges, ac)]

\* A plausible slip: replace the whole entry, dropping its StaleIDs.
SetAssocReplaceEntry(c, field, chs) ==
    IF HasKey(c.Assoc, field)
    THEN [c EXCEPT !.AssocChanges[c.Assoc[field] + 1] =
                        [Changes |-> chs, StaleIDs |-> NilSlice]]
    ELSE appendAssoc(c, field, [Changes |-> chs, StaleIDs |-> NilSlice])

SetAssoc(c, field, chs) ==
    IF HasKey(c.Assoc, field)
    THEN [c EXCEPT !.AssocChanges[c.Assoc[field] + 1].Changes = chs]
    ELSE appendAssoc(c, field, [Changes |-> chs, StaleIDs |-> NilSlice])

SetStaleAssoc(c, field, ids) ==
    IF HasKey(c.Assoc, field)
    THEN [c EXCEPT !.AssocChanges[c.Assoc[field] + 1].StaleIDs = ids]
    ELSE appendAssoc(c, field, [Changes |-> NilSlice, StaleIDs |-> ids])

\* Change.Build: a Change is a Changer that sets itself.
ChangeBuild(ch, c) == ChangesSet(c, ch)

RECURSIVE BuildFrom(_, _)
BuildFrom(c, changers) ==
    IF changers = <<>> THEN c
    ELSE BuildFrom(ChangeBuild(Head(changers), c), Tail(changers))

BuildChanges(changers) == BuildFrom(NewChanges, changers)

(***************************************************************************)
(* The change log as a state machine: a log made by BuildChanges, then any *)
(* interleaving of Set, SetValue, SetAssoc and SetStaleAssoc on it.        *)
(***************************************************************************)

MaxChangers == 2    \* changers folded by BuildChanges
MaxSets == 3        \* Change values applied to one log, BuildChanges' included

FieldValues == {StrV("Ann"), StrV("Bob")}

\* The Change values the callers pass.
ChangeInputs ==
    {Set("name", v) : v \in FieldValues}
        \cup {Inc("age"), DecBy("age", 2), ChangeFragment("age=?", <<1>>)}

AssocFields == {"tags", "posts"}

\* Child logs of an association, each built by BuildChanges.
ChildLog == BuildChanges(<<Set("title", StrV("Ann"))>>)
ChildInputs == {Variadic(<<>>), Variadic(<<ChildLog>>)}

StaleInputs == {NilSlice, SliceOf(<<>>), SliceOf(<<7>>)}

SeqsUpTo(S, n) == UNION {[1..k -> S] : k \in 0..n}

NoChange == ZeroChange
Op(name, field, ch, chs, ids) ==
    [op |-> name, field |-> field, ch |-> ch, chs |-> chs, ids |-> ids]

ChangesInit ==
    \E changers \in SeqsUpTo(ChangeInputs, MaxChangers) :
        /\ changes = BuildChanges(changers)
        /\ hist = changers
        /\ last = Op("BuildChanges", "", NoChange, NilSlice, NilSlice)

DoSet(ch) ==
    /\ Len(hist) < MaxSets
    /\ changes' = ChangesSet(changes, ch)
    /\ hist' = Append(hist, ch)
    /\ last' = Op("Set", ch.Field, ch, NilSlice, NilSlice)
    /\ UNCHANGED <<queryVars, preloadVars>>

DoSetValue(field, value) ==
    /\ Len(hist) < MaxSets
    /\ changes' = SetValue(changes, field, value)
    /\ hist' = Append(hist, Set(field, value))
    /\ last' = Op("SetValue", field, Set(field, value), NilSlice, NilSlice)
    /\ UNCHANGED <<queryVars, preloadVars>>

DoSetAssoc(field, chs) ==
    /\ changes' = SetAssoc(changes, field, chs)
    /\ last' = Op("SetAssoc", field, NoChange, chs, NilSlice)
    /\ UNCHANGED <<hist, queryVars, preloadVars>>

DoSetStaleAssoc(field, ids) ==
    /\ changes' = SetStaleAssoc(changes, field, ids)
    /\ last' = Op("SetStaleAssoc", field, NoChange, NilSlice, ids)
    /\ UNCHANGED <<hist, queryVars, preloadVars>>

ChangesNext ==
    \/ \E ch \in ChangeInputs : DoSet(ch)
    \/ \E v \in FieldValues : DoSetValue("age", v)
    \/ \E f \in AssocFields, chs \in ChildInputs : DoSetAssoc(f, chs)
    \/ \E f \in AssocFields, ids \in StaleInputs : DoSetStaleAssoc(f, ids)


(***************************************************************************)
(* Properties of the change log.                                           *)
(***************************************************************************)

\* C1 (index invariant): every key f of Fields maps to an index i with
\* 0 <= i < len(Changes) and Changes[i].Field = f, and Fields has as many keys
\* as Changes has entries; every key of Assoc maps to a valid index into
\* AssocChanges, distinct keys map to distinct indices, and Assoc has as many
\* keys as AssocChanges has entries.
IndexInvariant ==
    /\ \A f \in DOMAIN changes.Fields :
          /\ changes.Fields[f] >= 0
          /\ changes.Fields[f] < Len(changes.Changes)
          /\ At(changes.Changes, changes.Fields[f]).Field = f
    /\ Cardinality(DOMAIN changes.Fields) = Len(changes.Changes)
    /\ \A f \in DOMAIN changes.Assoc :
          /\ changes.Assoc[f] >= 0
          /\ changes.Assoc[f] < Len(changes.AssocChanges)
    /\ \A f, g \in DOMAIN changes.Assoc :
          f /= g => changes.Assoc[f] /= changes.Assoc[g]
    /\ Cardinality(DOMAIN changes.Assoc) = Len(changes.AssocChanges)

\* Some field was set twice.
ResetHappened ==
    \E i, j \in 1..Len(hist) : i < j /\ hist[i].Field = hist[j].Field

\* C1's case: a field was re-set and both associations were set, the last
\* operation being a SetStaleAssoc on an association that already existed.
IndexInvariantWitness ==
    /\ ResetHappened
    /\ Len(changes.Changes) = 2
    /\ Len(changes.AssocChanges) = 2
    /\ last.op = "SetStaleAssoc"
    /\ ~At(changes.AssocChanges, changes.Assoc[last.field]).Changes.isNil

\* The fields of a sequence of Change values in order of first occurrence.
RECURSIVE FirstFields(_, _)
FirstFields(chs, seen) ==
    IF chs = <<>> THEN <<>>
    ELSE IF Head(chs).Field \in seen THEN FirstFields(Tail(chs), seen)
    ELSE <<Head(chs).Field>> \o FirstFields(Tail(chs), seen \cup {Head(chs).Field})

\* The last Change of the sequence that names the field.
LatestFor(chs, field) ==
    LET at == {i \in 1..Len(chs) : chs[i].Field = field}
        top == CHOOSE i \in at : \A j \in at : j <= i
    IN chs[top]

ExpectedChanges(chs) ==
    LET fields == FirstFields(chs, {})
    IN [i \in 1..Len(fields) |-> LatestFor(chs, fields[i])]

\* C2 (order preservation): the Changes sequence holds exactly one entry per
\* distinct field applied, in order of each field's first insertion, each
\* entry being the latest Change applied for its field (kind and value).
OrderPreservation == changes.Changes = ExpectedChanges(hist)

\* C2's case: Set(name,Ann), Inc(age), Set(name,Bob) gives
\* [Set name=Bob, Inc age by 1].
OrderPreservationWitness ==
    /\ hist = <<Set("name", StrV("Ann")), Inc("age"), Set("name", StrV("Bob"))>>
    /\ changes.Changes = <<Set("name", StrV("Bob")), IncBy("age", 1)>>
    /\ last.op = "Set"

\* The association entries of every field other than f, and the top-level
\* field changes, are the same in logs c and d.
OthersUntouched(c, d, f) ==
    /\ \A g \in (DOMAIN c.Assoc) \ {f} : GetAssoc(d, g) = GetAssoc(c, g)
    /\ (DOMAIN d.Assoc) \ {f} = (DOMAIN c.Assoc) \ {f}
    /\ d.Fields = c.Fields
    /\ d.Changes = c.Changes

StaleRoundTripStep ==
    LET f == last'.field
        before == GetAssoc(changes, f)
        after == GetAssoc(changes', f)
    IN /\ last'.op = "SetStaleAssoc" =>
            /\ after.ok
            /\ after.assoc.StaleIDs = last'.ids
            /\ before.ok => after.assoc.Changes = before.assoc.Changes
            /\ OthersUntouched(changes, changes', f)
       /\ last'.op = "SetAssoc" =>
            /\ after.ok
            /\ after.assoc.Changes = last'.chs
            /\ before.ok => after.assoc.StaleIDs = before.assoc.StaleIDs
            /\ OthersUntouched(changes, changes', f)

\* C10 (stale-ID marker round trip): after SetStaleAssoc(field, ids),
\* GetAssoc(field) is found and returns StaleIDs equal to ids, nil staying
\* distinct from an empty non-nil sequence; SetStaleAssoc on an existing
\* association leaves its child Changes untouched, SetAssoc on an existing
\* association replaces its child Changes and leaves its StaleIDs untouched;
\* neither alters another association or a top-level field change.
StaleRoundTrip == [][StaleRoundTripStep]_vars

\* C10's case: SetStaleAssoc(field, nil) has just acted on an association
\* that holds child Changes, beside another association whose StaleIDs are
\* empty but not nil, on a log with top-level changes.
StaleRoundTripWitness ==
    /\ last.op = "SetStaleAssoc"
    /\ last.ids = NilSlice
    /\ GetAssoc(changes, last.field).assoc.StaleIDs.isNil
    /\ ~GetAssoc(changes, last.field).assoc.Changes.isNil
    /\ \E g \in (DOMAIN changes.Assoc) \ {last.field} :
          GetAssoc(changes, g).assoc.StaleIDs = SliceOf(<<>>)
    /\ ~Empty(changes)

(***************************************************************************)
(* Strings whose characters matter are sequences of one-character strings. *)
(***************************************************************************)

HasSuffix(s, suffix) ==
    /\ Len(s) >= Len(suffix)
    /\ SubSeq(s, Len(s) - Len(suffix) + 1, Len(s)) = suffix

\* strings.TrimSuffix: s without the suffix when s ends with it, else s.
TrimSuffix(s, suffix) ==
    IF HasSuffix(s, suffix) THEN SubSeq(s, 1, Len(s) - Len(suffix)) ELSE s

Posts == <<"p", "o", "s", "t", "s">>
Comments == <<"c", "o", "m", "m", "e", "n", "t", "s">>
Class == <<"c", "l", "a", "s", "s">>
User == <<"u", "s", "e", "r">>
Dot == <<".">>
UnderscoreId == <<"_", "i", "d">>
DotId == <<".", "i", "d">>
Id == <<"i", "d">>
Title == <<"t", "i", "t", "l", "e">>

(***************************************************************************)
(* The condition value model of package c (Condition, Join, Order): not    *)
(* part of the sources at hand, modelled from the design text.  A          *)
(* Condition is a comparison (a leaf) or an And/Or over inner conditions;  *)
(* the zero Condition is the empty And, "no condition".                    *)
(***************************************************************************)

\* Operands: I(column) names a column, V(n) is a plain value.
I(column) == [kind |-> "I", s |-> column, n |-> 0, values |-> <<>>]
V(n) == [kind |-> "value", s |-> <<>>, n |-> n, values |-> <<>>]
Vs(values) == [kind |-> "values", s |-> <<>>, n |-> 0, values |-> values]
NoOperand == [kind |-> "none", s |-> <<>>, n |-> 0, values |-> <<>>]

Eq(left, right) == [Type |-> "Eq", Left |-> left, Right |-> right, Inner |-> <<>>]
In(left, values) == [Type |-> "In", Left |-> left, Right |-> Vs(values), Inner |-> <<>>]

ZeroCondition == [Type |-> "And", Left |-> NoOperand, Right |-> NoOperand, Inner |-> <<>>]

None(c) == c.Type \in {"And", "Or"} /\ c.Inner = <<>>

\* c.And(inner...) and c.Or(inner...), the constructors.
And(inner) ==
    IF Len(inner) = 1 THEN inner[1]
    ELSE [Type |-> "And", Left |-> NoOperand, Right |-> NoOperand, Inner |-> inner]

Or(inner) ==
    IF Len(inner) = 1 THEN inner[1]
    ELSE [Type |-> "Or", Left |-> NoOperand, Right |-> NoOperand, Inner |-> inner]

\* Condition.And and Condition.Or, the methods: combine the receiver as a
\* whole with the given conditions; an empty receiver contributes nothing.
CondAnd(c, conds) == IF None(c) THEN And(conds) ELSE And(<<c>> \o conds)
CondOr(c, conds) == IF None(c) THEN Or(conds) ELSE Or(<<c>> \o conds)

\* The comparisons (leaves) of a condition.
RECURSIVE Leaves(_)
Leaves(c) ==
    IF c.Type \in {"And", "Or"}
    THEN UNION {Leaves(c.Inner[i]) : i \in 1..Len(c.Inner)}
    ELSE {c}

\* The truth of a condition when exactly the comparisons in `true` hold.
RECURSIVE Eval(_, _)
Eval(c, true) ==
    CASE c.Type = "And" -> \A i \in 1..Len(c.Inner) : Eval(c.Inner[i], true)
      [] c.Type = "Or" -> \E i \in 1..Len(c.Inner) : Eval(c.Inner[i], true)
      [] OTHER -> c \in true

ZeroJoin == [Mode |-> "", Collection |-> <<>>, Condition |-> ZeroCondition]
ZeroOrder == [Field |-> <<>>, Sort |-> 0]

(***************************************************************************)
(* Go slices and maps held by a Query.  A slice is a header (array, len,   *)
(* cap) over a backing array in the heap; copying a Query copies the       *)
(* header and the map reference, not what they point to.                   *)
(***************************************************************************)

NilRef == 0
NilHeader == [arr |-> NilRef, len |-> 0, cap |-> 0]
EmptyHeap == [arrays |-> <<>>, maps |-> <<>>]

\* The elements a slice header shows.
Contents(h, s) == IF s.arr = NilRef THEN <<>> ELSE SubSeq(h.arrays[s.arr], 1, s.len)

\* The capacity Go's runtime gives a slice that must grow to `needed`
\* elements (small slices: double, or the needed length when that is more).
GrowCap(cap, needed) == IF needed > 2 * cap THEN needed ELSE 2 * cap

\* append(s, xs...): in place when the capacity allows, else into a new array.
GoAppend(h, s, xs, zero) ==
    LET n == Len(xs)
        old == IF s.arr = NilRef THEN <<>> ELSE h.arrays[s.arr]
        put(cells, size) ==
            [i \in 1..size |->
                IF i > s.len /\ i <= s.len + n THEN xs[i - s.len]
                ELSE IF i <= Len(cells) THEN cells[i] ELSE zero]
    IN IF n = 0 THEN [h |-> h, s |-> s]
       ELSE IF s.len + n <= s.cap
       THEN [h |-> [h EXCEPT !.arrays[s.arr] = put(old, s.cap)],
             s |-> [s EXCEPT !.len = s.len + n]]
       ELSE LET cap == GrowCap(s.cap, s.len + n)
            IN [h |-> [h EXCEPT !.arrays = Append(h.arrays, put(SubSeq(old, 1, s.len), cap))],
                s |-> [arr |-> Len(h.arrays) + 1, len |-> s.len + n, cap |-> cap]]

(***************************************************************************)
(* query.go: Query and its builder methods.  A method takes the heap and   *)
(* the receiver (a copy of the caller's Query) and returns the heap and    *)
(* the Query it returns.                                                   *)
(***************************************************************************)

\* The owning repos: repo 1 is outside a transaction, repo 2 inside one.
Repos == {1, 2}
inTransaction(repo) == repo = 2

NewQuery(repo, collection) ==
    [repo |-> repo, Collection |-> collection, Fields |-> <<>>,
     AggregateField |-> "", AggregateMode |-> "", AsDistinct |-> FALSE,
     JoinClause |-> NilHeader, Condition |-> ZeroCondition, GroupFields |-> <<>>,
     HavingCondition |-> ZeroCondition, OrderClause |-> NilHeader,
     OffsetResult |-> 0, LimitResult |-> 0, LockClause |-> "", Changes |-> NilRef]

Ret(h, query) == [h |-> h, q |-> query]

Select(h, query, fields) == Ret(h, [query EXCEPT !.Fields = fields])

Distinct(h, query) == Ret(h, [query EXCEPT !.AsDistinct = TRUE])

\* A plausible slip: singularize by dropping every trailing "s".
RECURSIVE TrimAllS(_)
TrimAllS(s) == IF HasSuffix(s, <<"s">>) THEN TrimAllS(SubSeq(s, 1, Len(s) - 1)) ELSE s

JoinWithTrimAll(h, query, mode, collection, condition) ==
    LET join ==
            IF Len(condition) = 0
            THEN [Mode |-> mode, Collection |-> collection,
                  Condition |-> And(<<Eq(
                      I(query.Collection \o Dot \o TrimAllS(collection) \o UnderscoreId),
                      I(collection \o DotId))>>)]
            ELSE [Mode |-> mode, Collection |-> collection, Condition |-> And(condition)]
        r == GoAppend(h, query.JoinClause, <<join>>, ZeroJoin)
    IN Ret(r.h, [query EXCEPT !.JoinClause = r.s])

JoinWith(h, query, mode, collection, condition) ==
    LET join ==
            IF Len(condition) = 0
            THEN [Mode |-> mode, Collection |-> collection,
                  Condition |-> And(<<Eq(
                      I(query.Collection \o Dot \o TrimSuffix(collection, <<"s">>) \o UnderscoreId),
                      I(collection \o DotId))>>)]
            ELSE [Mode |-> mode, Collection |-> collection, Condition |-> And(condition)]
        r == GoAppend(h, query.JoinClause, <<join>>, ZeroJoin)
    IN Ret(r.h, [query EXCEPT !.JoinClause = r.s])

Join(h, query, collection, condition) == JoinWith(h, query, "JOIN", collection, condition)

Where(h, query, condition) ==
    Ret(h, [query EXCEPT !.Condition = CondAnd(query.Condition, condition)])

\* A plausible slip: disjoin the new conditions one by one, not their And.
OrWherePerClause(h, query, condition) ==
    Ret(h, [query EXCEPT !.Condition = CondOr(query.Condition, condition)])

OrWhere(h, query, condition) ==
    Ret(h, [query EXCEPT !.Condition = CondOr(query.Condition, <<And(condition)>>)])

Group(h, query, fields) == Ret(h, [query EXCEPT !.GroupFields = fields])

Having(h, query, condition) ==
    Ret(h, [query EXCEPT !.HavingCondition = CondAnd(query.HavingCondition, condition)])

OrHaving(h, query, condition) ==
    Ret(h, [query EXCEPT !.HavingCondition =
                CondOr(query.HavingCondition, <<And(condition)>>)])

Order(h, query, order) ==
    LET r == GoAppend(h, query.OrderClause, order, ZeroOrder)
    IN Ret(r.h, [query EXCEPT !.OrderClause = r.s])

Offset(h, query, offset) == Ret(h, [query EXCEPT !.OffsetResult = offset])

Limit(h, query, limit) == Ret(h, [query EXCEPT !.LimitResult = limit])

\* A plausible slip: the transaction check is left out.
LockAlways(h, query, lock) ==
    IF Len(lock) > 0
    THEN Ret(h, [query EXCEPT !.LockClause = lock[1]])
    ELSE Ret(h, [query EXCEPT !.LockClause = "FOR UPDATE"])

Lock(h, query, lock) ==
    IF ~inTransaction(query.repo) THEN Ret(h, query)
    ELSE IF Len(lock) > 0
    THEN Ret(h, [query EXCEPT !.LockClause = lock[1]])
    ELSE Ret(h, [query EXCEPT !.LockClause = "FOR UPDATE"])

FindBy(h, query, col, val) ==
    Where(h, query, <<Eq(I(query.Collection \o Dot \o col), V(val))>>)

Find(h, query, id) == FindBy(h, query, Id, id)

\* Query.Set: the map is made when the receiver has none, else written in place.
QuerySet(h, query, field, value) ==
    LET made == query.Changes = NilRef
        ref == IF made THEN Len(h.maps) + 1 ELSE query.Changes
        h1 == IF made THEN [h EXCEPT !.maps = Append(h.maps, EmptyMap)] ELSE h
    IN Ret([h1 EXCEPT !.maps[ref] = MapPut(h1.maps[ref], field, value)],
           [query EXCEPT !.Changes = ref])

(***************************************************************************)
(* The builder as a state machine: the caller holds descriptors in         *)
(* registers and stores the result of a builder call on one register's     *)
(* descriptor into a register (the same or another).                       *)
(***************************************************************************)

MaxCalls == 2        \* builder calls, all methods (SpecQuery)
MaxCondCalls == 4    \* builder calls, condition methods (SpecCond)
MaxJoinCalls == 3    \* builder calls, join methods (SpecJoin)

Regs == {1, 2}

CondA == Eq(I(<<"a">>), V(1))
CondB == Eq(I(<<"b">>), V(2))
CondC == Eq(I(<<"c">>), V(3))

\* A call: the method, the registers, and its arguments (text: mode, lock
\* clauses or field; strs: collection, columns or fields).
Call(m, src, dst, text, strs, conds, orders, n) ==
    [m |-> m, src |-> src, dst |-> dst, text |-> text, strs |-> strs,
     conds |-> conds, orders |-> orders, n |-> n]

NoCall == Call("", 0, 0, <<>>, <<>>, <<>>, <<>>, 0)

\* Register r holds the descriptor made for repo r over collection "posts".
QueryInit(calls) ==
    /\ q = [r \in Regs |-> NewQuery(r, Posts)]
    /\ heap = EmptyHeap
    /\ call = NoCall
    /\ budget = calls

QueryIdle == QueryInit(0)

ChangesIdle ==
    /\ changes = NewChanges
    /\ hist = <<>>
    /\ last = Op("", "", NoChange, NilSlice, NilSlice)

\* The caller stores the result r of a builder call into register dst.
Store(dst, r, c) ==
    /\ budget > 0
    /\ q' = [q EXCEPT ![dst] = r.q]
    /\ heap' = r.h
    /\ call' = c
    /\ budget' = budget - 1
    /\ UNCHANGED <<changesVars, preloadVars>>

DoSelect(src, dst, fields) ==
    Store(dst, Select(heap, q[src], fields),
          Call("Select", src, dst, <<>>, fields, <<>>, <<>>, 0))

DoDistinct(src, dst) ==
    Store(dst, Distinct(heap, q[src]), Call("Distinct", src, dst, <<>>, <<>>, <<>>, <<>>, 0))

DoJoin(src, dst, collection, condition) ==
    Store(dst, Join(heap, q[src], collection, condition),
          Call("Join", src, dst, <<"JOIN">>, <<collection>>, condition, <<>>, 0))

DoJoinWith(src, dst, mode, collection, condition) ==
    Store(dst, JoinWith(heap, q[src], mode, collection, condition),
          Call("JoinWith", src, dst, <<mode>>, <<collection>>, condition, <<>>, 0))

DoWhere(src, dst, condition) ==
    Store(dst, Where(heap, q[src], condition),
          Call("Where", src, dst, <<>>, <<>>, condition, <<>>, 0))

DoOrWhere(src, dst, condition) ==
    Store(dst, OrWhere(heap, q[src], condition),
          Call("OrWhere", src, dst, <<>>, <<>>, condition, <<>>, 0))

DoGroup(src, dst, fields) ==
    Store(dst, Group(heap, q[src], fields), Call("Group", src, dst, <<>>, fields, <<>>, <<>>, 0))

DoHaving(src, dst, condition) ==
    Store(dst, Having(heap, q[src], condition),
          Call("Having", src, dst, <<>>, <<>>, condition, <<>>, 0))

DoOrHaving(src, dst, condition) ==
    Store(dst, OrHaving(heap, q[src], condition),
          Call("OrHaving", src, dst, <<>>, <<>>, condition, <<>>, 0))

DoOrder(src, dst, order) ==
    Store(dst, Order(heap, q[src], order), Call("Order", src, dst, <<>>, <<>>, <<>>, order, 0))

DoOffset(src, dst, offset) ==
    Store(dst, Offset(heap, q[src], offset),
          Call("Offset", src, dst, <<>>, <<>>, <<>>, <<>>, offset))

DoLimit(src, dst, limit) ==
    Store(dst, Limit(heap, q[src], limit), Call("Limit", src, dst, <<>>, <<>>, <<>>, <<>>, limit))

DoLock(src, dst, lock) ==
    Store(dst, Lock(heap, q[src], lock), Call("Lock", src, dst, lock, <<>>, <<>>, <<>>, 0))

DoFind(src, dst, id) ==
    Store(dst, Find(heap, q[src], id), Call("Find", src, dst, <<>>, <<Id>>, <<>>, <<>>, id))

DoFindBy(src, dst, col, val) ==
    Store(dst, FindBy(heap, q[src], col, val),
          Call("FindBy", src, dst, <<>>, <<col>>, <<>>, <<>>, val))

DoQuerySet(src, dst, field, value) ==
    Store(dst, QuerySet(heap, q[src], field, value),
          Call("Set", src, dst, <<field>>, <<>>, <<>>, <<>>, value))

Asc(field) == [Field |-> field, Sort |-> 1]
Desc(field) == [Field |-> field, Sort |-> -1]

\* Every builder method, on any register, into any register.
QueryNext ==
    \E src \in Regs, dst \in Regs :
        \/ DoSelect(src, dst, <<Id, Title>>)
        \/ DoDistinct(src, dst)
        \/ \E cs \in {<<>>, <<CondA>>} : DoJoin(src, dst, Comments, cs)
        \/ DoJoinWith(src, dst, "LEFT JOIN", User, <<>>)
        \/ \E cs \in {<<CondA>>, <<CondB, CondC>>} : DoWhere(src, dst, cs)
        \/ DoOrWhere(src, dst, <<CondB, CondC>>)
        \/ DoGroup(src, dst, <<Title>>)
        \/ DoHaving(src, dst, <<CondA>>)
        \/ DoOrHaving(src, dst, <<CondB>>)
        \/ \E os \in {<<Asc(Id)>>, <<Desc(Title), Asc(Id)>>} : DoOrder(src, dst, os)
        \/ DoOffset(src, dst, 5)
        \/ DoLimit(src, dst, 10)
        \/ \E lock \in {<<>>, <<"FOR SHARE">>, <<"FOR SHARE", "NOWAIT">>} :
              DoLock(src, dst, lock)
        \/ DoFind(src, dst, 1)
        \/ DoFindBy(src, dst, Title, 2)
        \/ \E f \in {"name", "age"} : DoQuerySet(src, dst, f, 1)


\* The condition methods, chained on the descriptor of register 1.
CondInputs == {<<CondA>>, <<CondB>>, <<CondC>>, <<CondA, CondB>>}

CondNext ==
    \/ \E cs \in CondInputs : DoWhere(1, 1, cs)
    \/ \E cs \in CondInputs : DoOrWhere(1, 1, cs)
    \/ \E cs \in {<<CondA>>, <<CondB, CondC>>} : DoHaving(1, 1, cs)
    \/ \E cs \in {<<CondA>>, <<CondB, CondC>>} : DoOrHaving(1, 1, cs)
    \/ DoFind(1, 1, 1)
    \/ DoFindBy(1, 1, Title, 2)


\* The join methods, on any register, into any register.
JoinNext ==
    \E src \in Regs, dst \in Regs, cs \in {<<>>, <<CondA, CondB>>} :
        \/ \E c \in {Comments, Class, User} : DoJoin(src, dst, c, cs)
        \/ DoJoinWith(src, dst, "LEFT JOIN", Comments, cs)


(***************************************************************************)
(* Properties of the query descriptor builder.                             *)
(***************************************************************************)

\* What a caller can observe of a descriptor: its components, with the
\* slices and the map read through.
Observable(h, query) ==
    [query EXCEPT !.JoinClause = Contents(h, query.JoinClause),
                  !.OrderClause = Contents(h, query.OrderClause),
                  !.Changes = IF query.Changes = NilRef THEN <<"nil">>
                              ELSE <<"map", h.maps[query.Changes]>>]

\* C3 (copy-on-write): a builder call leaves every observable component of
\* every descriptor the caller holds, other than the one the result is stored
\* into, unchanged: the receiver and every descriptor branched earlier.
CopyOnWrite ==
    [][\A r \in Regs :
          r /= call'.dst => Observable(heap', q'[r]) = Observable(heap, q[r])]_vars

\* Every conds[i] holds when exactly the comparisons in `true` hold.
AllOf(conds, true) == \A i \in 1..Len(conds) : Eval(conds[i], true)

LeavesOf(conds) == UNION {Leaves(conds[i]) : i \in 1..Len(conds)}

\* new is the conjunction (disjunction) of old, as a whole, with the And of conds.
IsAndOf(new, old, conds) ==
    \A true \in SUBSET (Leaves(new) \cup Leaves(old) \cup LeavesOf(conds)) :
        Eval(new, true) = (Eval(old, true) /\ AllOf(conds, true))

IsOrOf(new, old, conds) ==
    \A true \in SUBSET (Leaves(new) \cup Leaves(old) \cup LeavesOf(conds)) :
        Eval(new, true) = (Eval(old, true) \/ AllOf(conds, true))

OrSemanticsStep ==
    LET old == q[call'.src]
        new == q'[call'.dst]
    IN /\ call'.m = "Where" =>
            /\ IsAndOf(new.Condition, old.Condition, call'.conds)
            /\ new.HavingCondition = old.HavingCondition
       /\ call'.m = "OrWhere" =>
            /\ ~None(old.Condition) => IsOrOf(new.Condition, old.Condition, call'.conds)
            /\ new.HavingCondition = old.HavingCondition
       /\ call'.m = "Having" =>
            /\ IsAndOf(new.HavingCondition, old.HavingCondition, call'.conds)
            /\ new.Condition = old.Condition
       /\ call'.m = "OrHaving" =>
            /\ ~None(old.HavingCondition) =>
                  IsOrOf(new.HavingCondition, old.HavingCondition, call'.conds)
            /\ new.Condition = old.Condition

\* C4 (OR semantics): Where conjoins the accumulated condition with the given
\* conditions; OrWhere disjoins the And of the given conditions with the
\* whole accumulated condition, so Where(A).OrWhere(B) is Or(A, B) and
\* Where(A).Where(B).OrWhere(C) is Or(And(A, B), C); Having and OrHaving do
\* the same on the having condition, and neither pair touches the other's
\* condition.
OrSemantics == [][OrSemanticsStep]_vars

\* C4's case: OrWhere(C) has made the condition (A and B) or C, which the
\* per-clause reading A and (B or C) is not.
OrSemanticsWitness ==
    /\ call.m = "OrWhere"
    /\ call.conds = <<CondC>>
    /\ Leaves(q[1].Condition) = {CondA, CondB, CondC}
    /\ \A true \in SUBSET {CondA, CondB, CondC} :
          Eval(q[1].Condition, true) =
              ((CondA \in true /\ CondB \in true) \/ CondC \in true)
    /\ ~None(q[1].HavingCondition)

LockInv == \A r \in Regs : q[r].LockClause /= "" => inTransaction(q[r].repo)

LockStep ==
    call'.m = "Lock" =>
        LET recv == q[call'.src]
            res == q'[call'.dst]
        IN /\ heap' = heap
           /\ IF ~inTransaction(recv.repo) THEN res = recv
              ELSE res = [recv EXCEPT !.LockClause =
                              IF call'.text = <<>> THEN "FOR UPDATE" ELSE call'.text[1]]

\* C5 (lock invariant): LockClause is non-empty only on a descriptor whose
\* repo is in a transaction; outside a transaction Lock returns the receiver
\* unchanged, inside one it sets LockClause to the first clause given, or to
\* "FOR UPDATE" when none is given, and changes no other component.
LockInvariant == []LockInv /\ [][LockStep]_vars

\* C5's case: inside a transaction, Lock("FOR SHARE", "NOWAIT") has set the
\* first clause on a descriptor that has other components set, while the
\* caller also holds a descriptor of the repo outside a transaction.
LockInvariantWitness ==
    /\ call.m = "Lock"
    /\ call.text = <<"FOR SHARE", "NOWAIT">>
    /\ q[call.dst].LockClause = "FOR SHARE"
    /\ inTransaction(q[call.dst].repo)
    /\ q[call.dst] /= [NewQuery(q[call.dst].repo, Posts) EXCEPT !.LockClause = "FOR SHARE"]
    /\ \E r \in Regs : ~inTransaction(q[r].repo)

\* The related collection's name with one trailing "s" dropped.
Singular(related) ==
    IF related /= <<>> /\ related[Len(related)] = "s"
    THEN [i \in 1..(Len(related) - 1) |-> related[i]]
    ELSE related

JoinConventionStep ==
    call'.m \in {"Join", "JoinWith"} =>
        LET old == Contents(heap, q[call'.src].JoinClause)
            new == Contents(heap', q'[call'.dst].JoinClause)
            related == call'.strs[1]
            added == new[Len(new)]
        IN /\ Len(new) = Len(old) + 1
           /\ SubSeq(new, 1, Len(old)) = old
           /\ added.Mode = IF call'.m = "Join" THEN "JOIN" ELSE call'.text[1]
           /\ added.Collection = related
           /\ IF call'.conds = <<>>
              THEN added.Condition =
                      Eq(I(q[call'.src].Collection \o <<".">> \o Singular(related)
                              \o <<"_", "i", "d">>),
                         I(related \o <<".", "i", "d">>))
              ELSE /\ Leaves(added.Condition) = LeavesOf(call'.conds)
                   /\ \A true \in SUBSET LeavesOf(call'.conds) :
                         Eval(added.Condition, true) = AllOf(call'.conds, true)

\* C6 (join convention): Join/JoinWith with no condition appends exactly one
\* join on <currentCollection>.<related less one trailing "s">_id =
\* <related>.id; with conditions it appends one join on the And of exactly
\* those conditions; the joins accumulated before are kept, in order, before
\* the new one.
JoinConvention == [][JoinConventionStep]_vars

\* C6's case: Join("comments") on "posts", after two other joins, has added
\* posts.comment_id = comments.id as the third.
JoinConventionWitness ==
    /\ call.m = "Join"
    /\ call.strs = <<Comments>>
    /\ call.conds = <<>>
    /\ LET joins == Contents(heap, q[call.dst].JoinClause)
       IN /\ Len(joins) = 3
          /\ joins[1].Collection = Class
          /\ joins[2].Mode = "LEFT JOIN"
          /\ joins[3].Condition =
                Eq(I(<<"p", "o", "s", "t", "s", ".", "c", "o", "m", "m", "e", "n", "t",
                       "_", "i", "d">>),
                   I(<<"c", "o", "m", "m", "e", "n", "t", "s", ".", "i", "d">>))

(***************************************************************************)
(* Record shapes for Preload, as reflection shows them: a struct type is   *)
(* its fields by name, each with a kind, an element type and its tags.     *)
(***************************************************************************)

Field(kind, elem, references, foreignKey, db) ==
    [kind |-> kind, elem |-> elem, references |-> references,
     foreignKey |-> foreignKey, db |-> db]

Plain(kind) == Field(kind, "", "", "", "")
Rel(kind, elem) == Field(kind, elem, "", "", "")

\* type Comment struct {
\*     ID int; PostID int; ParentID *int
\*     Post   *Post
\*     Parent *Comment
\* }
\* type Post struct {
\*     ID int; GroupID *int; Title string
\*     Group   *Group
\*     Tags    []Tag
\*     Meta    Meta
\*     Members []Member `references:"GroupID" foreign_key:"GroupID"`
\*     Notes   []Note   `references:"ID" foreign_key:"OwnerID"`
\*     Pins    []Tag    `references:"PinID" foreign_key:"PostID"`
\* }
\* type Group struct { ID int; Name string }
\* type Tag struct { ID int; PostID int; Name string }
\* type Meta struct { ID int; PostID int; Name string }
\* type Member struct { ID int; GroupID int `db:"group"`; Name string }
\* type Note struct { ID int; Name string }
Types ==
    [Comment |-> [ID |-> Plain("int"), PostID |-> Plain("int"),
                  ParentID |-> Rel("ptr", "int"), Post |-> Rel("ptr", "Post"),
                  Parent |-> Rel("ptr", "Comment")],
     Post |-> [ID |-> Plain("int"), GroupID |-> Rel("ptr", "int"), Title |-> Plain("string"),
               Group |-> Rel("ptr", "Group"), Tags |-> Rel("slice", "Tag"),
               Meta |-> Rel("struct", "Meta"),
               Members |-> Field("slice", "Member", "GroupID", "GroupID", ""),
               Notes |-> Field("slice", "Note", "ID", "OwnerID", ""),
               Pins |-> Field("slice", "Tag", "PinID", "PostID", "")],
     Group |-> [ID |-> Plain("int"), Name |-> Plain("string")],
     Tag |-> [ID |-> Plain("int"), PostID |-> Plain("int"), Name |-> Plain("string")],
     Meta |-> [ID |-> Plain("int"), PostID |-> Plain("int"), Name |-> Plain("string")],
     Member |-> [ID |-> Plain("int"), GroupID |-> Field("int", "", "", "", "group"),
                 Name |-> Plain("string")],
     Note |-> [ID |-> Plain("int"), Name |-> Plain("string")]]

IsStruct(type) == type \in DOMAIN Types

\* rt.FieldByName(name): whether the struct type has the field.
HasField(type, name) == IsStruct(type) /\ name \in DOMAIN Types[type]

(***************************************************************************)
(* Record values.  A struct is [type, f] with f its fields by name; a      *)
(* slice is [isNil, elems] with the elements inline; a pointer is          *)
(* [isNil, addr], addr a cell of the graph's heap of structs or 0 for the   *)
(* root struct itself, or [isNil, n] for *int.  A place (an addressable    *)
(* reflect.Value) is a base, 0 for the root or a heap address, and the     *)
(* selectors (field or index) that lead to it.                             *)
(***************************************************************************)

NilPtr == [isNil |-> TRUE, addr |-> 0]
PtrTo(addr) == [isNil |-> FALSE, addr |-> addr]
NilInt == [isNil |-> TRUE, n |-> 0]
IntPtr(n) == [isNil |-> FALSE, n |-> n]

Sel(name) == [f |-> name, i |-> 0]
Idx(i) == [f |-> "", i |-> i]

RECURSIVE ValueAt(_, _)
ValueAt(v, sels) ==
    IF sels = <<>> THEN v
    ELSE IF Head(sels).f /= "" THEN ValueAt(v.f[Head(sels).f], Tail(sels))
    ELSE ValueAt(v.elems[Head(sels).i], Tail(sels))

RECURSIVE WithValueAt(_, _, _)
WithValueAt(v, sels, new) ==
    IF sels = <<>> THEN new
    ELSE IF Head(sels).f /= ""
    THEN [v EXCEPT !.f[Head(sels).f] = WithValueAt(@, Tail(sels), new)]
    ELSE [v EXCEPT !.elems[Head(sels).i] = WithValueAt(@, Tail(sels), new)]

Place(base, sels) == [base |-> base, sels |-> sels]

ReadPlace(g, place) ==
    ValueAt(IF place.base = 0 THEN g.root.v ELSE g.heap[place.base], place.sels)

WritePlace(g, place, new) ==
    IF place.base = 0
    THEN [g EXCEPT !.root.v = WithValueAt(@, place.sels, new)]
    ELSE [g EXCEPT !.heap[place.base] = WithValueAt(@, place.sels, new)]

\* A reflect.Value: where it is, its kind and its (element) type.
Reflect(place, kind, type) == [place |-> place, kind |-> kind, type |-> type]

\* rv.FieldByName(name) of a struct value whose type has the field.
FieldOf(rv, name) ==
    Reflect(Place(rv.place.base, Append(rv.place.sels, Sel(name))),
            Types[rv.type][name].kind, Types[rv.type][name].elem)

(***************************************************************************)
(* query.go: the preload engine.  A function that can panic returns the    *)
(* panic message, "" when it did not panic.                                *)
(***************************************************************************)

Panicked(message) == [panic |-> message, targets |-> <<>>]
Targets(targets) == [panic |-> "", targets |-> targets]

\* result = append(result, more...), unless one of the two panicked.
Appended(result, more) ==
    IF result.panic /= "" THEN result
    ELSE IF more.panic /= "" THEN more
    ELSE Targets(result.targets \o more.targets)

\* rv.Index(i - 1)
Index(rv, i) ==
    Reflect(Place(rv.place.base, Append(rv.place.sels, Idx(i))), "struct", rv.type)

\* fv.Elem() of a non-nil pointer.
Elem(g, fv) ==
    IF IsStruct(fv.type)
    THEN Reflect(Place(ReadPlace(g, fv.place).addr, <<>>), "struct", fv.type)
    ELSE Reflect(fv.place, fv.type, fv.type)

RECURSIVE traversePreloadTarget(_, _, _)
RECURSIVE traverseElements(_, _, _, _)

\* The loop of traversePreloadTarget over the elements of a slice, from i on.
traverseElements(g, rv, path, i) ==
    IF i > Len(ReadPlace(g, rv.place).elems) THEN Targets(<<>>)
    ELSE Appended(traversePreloadTarget(g, Index(rv, i), path),
                  traverseElements(g, rv, path, i + 1))

\* traversePreloadTarget once the field fv of the record rv is found valid.
traverseField(g, rv, path, fv) ==
    IF fv.kind = "ptr" /\ Len(path) /= 1
    THEN IF ReadPlace(g, fv.place).isNil THEN Targets(<<>>)
         ELSE traversePreloadTarget(g, Elem(g, fv), Tail(path))
    ELSE IF Len(path) = 1 THEN Targets(<<[schema |-> rv, field |-> fv]>>)
    ELSE traversePreloadTarget(g, fv, Tail(path))

\* A plausible slip: a record without the field is skipped, not refused.
traverseSkipInvalid(g, rv, path) ==
    IF rv.kind = "slice" THEN traverseElements(g, rv, path, 1)
    ELSE IF ~IsStruct(rv.type) THEN Panicked("reflect: FieldByName of non-struct")
    ELSE IF \/ ~HasField(rv.type, path[1])
            \/ Types[rv.type][path[1]].kind \notin {"struct", "slice", "ptr"}
    THEN Targets(<<>>)
    ELSE traverseField(g, rv, path, FieldOf(rv, path[1]))

traversePreloadTarget(g, rv, path) ==
    IF rv.kind = "slice" THEN traverseElements(g, rv, path, 1)
    ELSE IF ~IsStruct(rv.type) THEN Panicked("reflect: FieldByName of non-struct")
    ELSE IF \/ ~HasField(rv.type, path[1])
            \/ Types[rv.type][path[1]].kind \notin {"struct", "slice", "ptr"}
    THEN Panicked("grimoire: field is not a struct, a slice or a pointer.")
    ELSE traverseField(g, rv, path, FieldOf(rv, path[1]))

\* snakecase.SnakeCase on the foreign-key field names of the record shapes.
SnakeCase(name) ==
    CASE name = "ID" -> <<"i", "d">>
      [] name = "PostID" -> <<"p", "o", "s", "t", "_", "i", "d">>
      [] name = "GroupID" -> <<"g", "r", "o", "u", "p", "_", "i", "d">>
      [] name = "ParentID" -> <<"p", "a", "r", "e", "n", "t", "_", "i", "d">>
      [] OTHER -> <<"?">>

\* The db tags of the record shapes, as columns.
Column(tag) == IF tag = "group" THEN <<"g", "r", "o", "u", "p">> ELSE <<"?">>

InfoPanic(message) == [panic |-> message, ref |-> "", fk |-> "", column |-> <<>>]

getPreloadInfo(rt, field) ==
    LET sft == Types[rt][field]
        ft == sft.elem
        guess == sft.references = "" \/ sft.foreignKey = ""
        isBelongsTo == HasField(rt, field \o "ID")
        ref == IF ~guess THEN sft.references
               ELSE IF isBelongsTo THEN field \o "ID" ELSE "ID"
        fk == IF ~guess THEN sft.foreignKey
              ELSE IF isBelongsTo THEN "ID" ELSE rt \o "ID"
    IN IF ~HasField(rt, ref) THEN InfoPanic("grimoire: references field not found")
       ELSE IF ~IsStruct(ft) THEN InfoPanic("reflect: FieldByName of non-struct type")
       ELSE IF ~HasField(ft, fk) THEN InfoPanic("grimoire: foreign_key field not found")
       ELSE [panic |-> "", ref |-> ref, fk |-> fk,
             column |-> IF Types[ft][fk].db /= "" THEN Column(Types[ft][fk].db)
                        ELSE SnakeCase(fk)]

\* getPreloadID: the value behind a pointer, or the value itself.
getPreloadID(g, fv) ==
    IF fv.kind = "ptr" THEN ReadPlace(g, fv.place).n ELSE ReadPlace(g, fv.place)

\* A plausible slip: the slot is left as it is.
resetSliceNever(g, fv) == g

\* "reset to zero if slice": a slice (or array) slot is set to its zero value.
resetSlice(g, fv) ==
    IF fv.kind \in {"slice", "array"} THEN WritePlace(g, fv.place, NilSlice) ELSE g

RECURSIVE collectFrom(_, _, _, _, _, _)

\* A plausible slip: the id is added to ids for every target.
collectPutEveryID(g, preload, ref, i, addrs, ids, id, fv) ==
    collectFrom(g, preload, ref, i + 1,
                MapPut(addrs, id, IF HasKey(addrs, id) THEN Append(addrs[id], fv) ELSE <<fv>>),
                Append(ids, id))

\* addrs[id] = append(addrs[id], fv), and ids = append(ids, id) if the id is
\* new; then on to the next target.
collectPut(g, preload, ref, i, addrs, ids, id, fv) ==
    collectFrom(g, preload, ref, i + 1,
                MapPut(addrs, id, IF HasKey(addrs, id) THEN Append(addrs[id], fv) ELSE <<fv>>),
                IF HasKey(addrs, id) THEN ids ELSE Append(ids, id))

\* One turn of the loop: the target i with reference field refv and slot fv.
collectOne(g, preload, ref, i, addrs, ids, refv, fv) ==
    IF refv.kind = "ptr" /\ ReadPlace(g, refv.place).isNil
    THEN collectFrom(g, preload, ref, i + 1, addrs, ids)
    ELSE collectPut(resetSlice(g, fv), preload, ref, i, addrs, ids,
                    getPreloadID(g, refv), fv)

\* The loop of collectPreloadTarget from target i on.
collectFrom(g, preload, ref, i, addrs, ids) ==
    IF i > Len(preload) THEN [g |-> g, addrs |-> addrs, ids |-> ids]
    ELSE collectOne(g, preload, ref, i, addrs, ids,
                    FieldOf(preload[i].schema, ref), preload[i].field)

collectPreloadTarget(g, preload, ref) == collectFrom(g, preload, ref, 1, EmptyMap, <<>>)

\* The fan-in assignment of one fetched record into one relation slot.
Assign(g, addr, curr) ==
    IF addr.kind = "slice"
    THEN WritePlace(g, addr.place, SliceOf(Append(ReadPlace(g, addr.place).elems, curr)))
    ELSE IF addr.kind = "ptr"
    THEN WritePlace([g EXCEPT !.heap = Append(g.heap, curr)], addr.place,
                    PtrTo(Len(g.heap) + 1))
    ELSE WritePlace(g, addr.place, curr)

RECURSIVE AssignAll(_, _, _, _)
AssignAll(g, list, curr, j) ==
    IF j > Len(list) THEN g ELSE AssignAll(Assign(g, list[j], curr), list, curr, j + 1)

\* The fan-in loop over the fetched records, from record i on.
RECURSIVE FanIn(_, _, _, _, _)
FanIn(g, rows, addrs, fk, i) ==
    IF i > Len(rows) THEN g
    ELSE LET curr == rows[i]
             id == curr.f[fk]
         IN FanIn(IF HasKey(addrs, id) THEN AssignAll(g, addrs[id], curr, 1) ELSE g,
                  rows, addrs, fk, i + 1)

\* What a Preload call comes to: how it ended, the graph it leaves, and the
\* queries it issued.
Ended(status, err, g, issued) ==
    [status |-> status, err |-> err, g |-> g, issued |-> issued]

\* The root record: Preload is given a non-nil pointer to a struct or a slice.
RootOf(g) == Reflect(Place(0, <<>>), g.root.kind, g.root.type)

\* A call that ends before the batch fetch, leaving the graph g.
Unfetched(g, query, ended) ==
    [fetch |-> FALSE, g |-> g, addrs |-> EmptyMap, ids |-> <<>>, fk |-> "", type |-> "",
     query |-> query, ended |-> ended]

\* Preload once the targets are collected: no ids, no query.
PreloadQueried(query, preload, info, got) ==
    IF Len(got.ids) = 0 THEN Unfetched(got.g, query, Ended("ok", "", got.g, <<>>))
    ELSE [fetch |-> TRUE, g |-> got.g, addrs |-> got.addrs, ids |-> got.ids,
          fk |-> info.fk, type |-> preload.targets[1].field.type,
          query |-> Where(EmptyHeap, query, <<In(I(info.column), got.ids)>>).q,
          ended |-> Ended("ok", "", got.g, <<>>)]

\* Preload once getPreloadInfo has returned or panicked.
PreloadCollected(g, query, preload, info) ==
    IF info.panic /= "" THEN Unfetched(g, query, Ended("panic", info.panic, g, <<>>))
    ELSE PreloadQueried(query, preload, info,
                        collectPreloadTarget(g, preload.targets, info.ref))

\* Preload once traversePreloadTarget has returned or panicked.
PreloadTraversed(g, query, path, preload) ==
    IF preload.panic /= "" THEN Unfetched(g, query, Ended("panic", preload.panic, g, <<>>))
    ELSE IF Len(preload.targets) = 0 THEN Unfetched(g, query, Ended("ok", "", g, <<>>))
    ELSE PreloadCollected(g, query, preload,
                          getPreloadInfo(preload.targets[1].schema.type, path[Len(path)]))

\* Preload up to the batch fetch.  fetch says whether the query is issued;
\* if not, ended says how the call ended.
PreloadCollect(g, query, path) ==
    PreloadTraversed(g, query, path, traversePreloadTarget(g, RootOf(g), path))

\* Preload from the batch fetch on, given what the fetch returned.
PreloadFanIn(c, outcome) ==
    IF outcome.err /= ""
    THEN Ended("error", outcome.err, c.g, <<c.query>>)
    ELSE Ended("ok", "", FanIn(c.g, outcome.rows, c.addrs, c.fk, 1), <<c.query>>)

\* Preload after PreloadCollect.
PreloadEnd(c, outcome) == IF c.fetch THEN PreloadFanIn(c, outcome) ELSE c.ended

\* Query.Preload, given what the batch fetch returns if it is reached.
Preload(g, query, path, outcome) == PreloadEnd(PreloadCollect(g, query, path), outcome)

(***************************************************************************)
(* Preload as a state machine: the caller holds a record graph and calls   *)
(* Preload on it with some path; the batch fetch, made by the adapter,     *)
(* returns an error or any rows of the related type.                       *)
(***************************************************************************)

MaxOwners == 2      \* records in the root slice
MaxRows == 2        \* rows a batch fetch returns
MaxPreloads == 1    \* Preload calls on one graph

Row(type, id, key, name) ==
    [type |-> type,
     f |-> IF type = "Group" THEN [ID |-> id, Name |-> name]
           ELSE IF type = "Member" THEN [ID |-> id, GroupID |-> key, Name |-> name]
           ELSE [ID |-> id, PostID |-> key, Name |-> name]]

ZeroMeta == Row("Meta", 0, 0, "")

\* A Post with its relation slots empty, or holding earlier contents.
PostValue(id, groupID, filled) ==
    [type |-> "Post",
     f |-> [ID |-> id, GroupID |-> groupID, Title |-> "t",
            Group |-> IF filled THEN PtrTo(1) ELSE NilPtr,
            Tags |-> IF filled THEN SliceOf(<<Row("Tag", 9, id, "old")>>) ELSE NilSlice,
            Meta |-> IF filled THEN Row("Meta", 9, id, "old") ELSE ZeroMeta,
            Members |-> IF filled THEN SliceOf(<<Row("Member", 9, 1, "old")>>) ELSE NilSlice,
            Notes |-> NilSlice,
            Pins |-> NilSlice]]

CommentValue(id, postID, post, parentID, parent) ==
    [type |-> "Comment",
     f |-> [ID |-> id, PostID |-> postID, ParentID |-> parentID, Post |-> post,
            Parent |-> parent]]

\* The rows an adapter can return for a related type.
RowsOf(type) ==
    CASE type = "Tag" -> {Row("Tag", 1, 1, "a"), Row("Tag", 3, 2, "c")}
      [] type = "Meta" -> {Row("Meta", 1, 1, "a"), Row("Meta", 2, 1, "b")}
      [] type = "Group" -> {Row("Group", 1, 0, "a"), Row("Group", 1, 0, "b")}
      [] type = "Member" -> {Row("Member", 1, 1, "a"), Row("Member", 2, 1, "b")}
      [] type = "Post" -> {PostValue(1, IntPtr(1), FALSE), PostValue(2, NilInt, FALSE)}
      [] type = "Comment" -> {CommentValue(2, 1, NilPtr, IntPtr(2), NilPtr),
                              CommentValue(3, 1, NilPtr, NilInt, NilPtr)}
      [] OTHER -> {}

Fetched(rows) == [err |-> "", rows |-> rows]
FetchFailed(err) == [err |-> err, rows |-> <<>>]

Outcomes(type) ==
    {Fetched(rows) : rows \in SeqsUpTo(RowsOf(type), MaxRows)}
        \cup {FetchFailed("connection lost")}

Paths ==
    {<<"Tags">>, <<"Group">>, <<"Meta">>, <<"Members">>, <<"Title">>, <<"Bogus">>,
     <<"Notes">>, <<"Pins">>, <<"GroupID">>, <<"Post">>, <<"Post", "Tags">>,
     <<"Post", "Group">>, <<"Post", "Bogus">>, <<"ID", "Tags">>, <<"Parent">>,
     <<"Parent", "Parent">>}

\* The pointees every graph starts with: a Group, two Posts that the
\* Comments of a root may point to (both to the same one, too), and a Comment.
InitHeap(filled) ==
    <<Row("Group", 9, 0, "old"), PostValue(1, IntPtr(1), filled),
      PostValue(2, NilInt, filled), CommentValue(2, 1, NilPtr, IntPtr(2), NilPtr)>>

PostInputs(filled) == {PostValue(1, IntPtr(1), filled), PostValue(2, NilInt, filled)}

CommentInputs ==
    {CommentValue(1, 1, post, NilInt, NilPtr) : post \in {NilPtr, PtrTo(2), PtrTo(3)}}

\* One Comment as the root: its Parent is nil, the Comment of the heap, or
\* the root itself (c.Parent = &c).
ThreadInputs ==
    {CommentValue(1, 1, NilPtr, IntPtr(2), parent) : parent \in {NilPtr, PtrTo(4), PtrTo(0)}}

\* The roots: a slice of Posts, one Post, a slice of Comments or one Comment.
RootInputs(filled) ==
    {[kind |-> "slice", type |-> "Post", v |-> SliceOf(posts)] :
        posts \in SeqsUpTo(PostInputs(filled), MaxOwners)}
    \cup {[kind |-> "struct", type |-> "Post", v |-> post] : post \in PostInputs(filled)}
    \cup {[kind |-> "slice", type |-> "Comment", v |-> SliceOf(comments)] :
        comments \in SeqsUpTo(CommentInputs, MaxOwners)}
    \cup {[kind |-> "struct", type |-> "Comment", v |-> comment] : comment \in ThreadInputs}

NoOutcome == FetchFailed("")

PCall(path, outcome, fetched, status, err, issued) ==
    [path |-> path, outcome |-> outcome, fetched |-> fetched, status |-> status,
     err |-> err, issued |-> issued]

NoPCall == PCall(<<>>, NoOutcome, FALSE, "", "", <<>>)

PreloadInit ==
    \E filled \in BOOLEAN :
        \E root \in RootInputs(filled) :
            /\ graph = [root |-> root, heap |-> InitHeap(filled)]
            /\ pcall = NoPCall
            /\ pleft = MaxPreloads

PreloadIdle ==
    /\ graph = [root |-> [kind |-> "slice", type |-> "Post", v |-> NilSlice], heap |-> <<>>]
    /\ pcall = NoPCall
    /\ pleft = 0

\* The descriptor Preload is called on.
PreloadQuery == NewQuery(1, <<"r">>)

\* What the batch fetch of a call can return; nothing if it is not reached.
OutcomesOf(c) == IF c.fetch THEN Outcomes(c.type) ELSE {NoOutcome}

\* The call has returned or panicked: the caller sees the graph it leaves.
Returned(path, outcome, fetched, r) ==
    /\ graph' = r.g
    /\ pcall' = PCall(path, outcome, fetched, r.status, r.err, r.issued)
    /\ pleft' = pleft - 1
    /\ UNCHANGED <<changesVars, queryVars>>

\* A Preload call from its collect phase c on.
PreloadFrom(path, c) ==
    \E outcome \in OutcomesOf(c) : Returned(path, outcome, c.fetch, PreloadEnd(c, outcome))

\* A Preload call on the graph.
DoPreload(path) ==
    /\ pleft > 0
    /\ PreloadFrom(path, PreloadCollect(graph, PreloadQuery, path))

PreloadNext == \E path \in Paths : DoPreload(path)

(***************************************************************************)
(* The claims about Preload.  They are stated over the record graph as the *)
(* caller sees it, not over the engine's own operators.                    *)
(***************************************************************************)

Range(seq) == {seq[i] : i \in 1..Len(seq)}

\* A Preload call has just been made.
Called == pleft' /= pleft

UnfoldDepth == 4

\* The record graph as the caller sees it from the root: every pointer to a
\* record replaced by the record it leads to, down to UnfoldDepth pointers.
RECURSIVE Unfold(_, _, _)
Unfold(g, v, depth) ==
    [type |-> v.type,
     f |-> [name \in DOMAIN v.f |->
            LET field == Types[v.type][name]
                x == v.f[name]
            IN CASE field.kind = "ptr" /\ IsStruct(field.elem) ->
                        IF x.isNil THEN [isNil |-> TRUE]
                        ELSE IF depth = 0 THEN [isNil |-> FALSE]
                        ELSE [isNil |-> FALSE,
                              to |-> Unfold(g, ReadPlace(g, Place(x.addr, <<>>)), depth - 1)]
                 [] field.kind = "slice" ->
                        [isNil |-> x.isNil,
                         elems |-> [i \in 1..Len(x.elems) |-> Unfold(g, x.elems[i], depth)]]
                 [] field.kind = "struct" -> Unfold(g, x, depth)
                 [] OTHER -> x]]

Seen(g) ==
    IF g.root.kind = "slice"
    THEN [i \in 1..Len(g.root.v.elems) |-> Unfold(g, g.root.v.elems[i], UnfoldDepth)]
    ELSE <<Unfold(g, g.root.v, UnfoldDepth)>>

\* Two graphs are the same to the caller: equal, or equal once every pointer
\* is followed.
SameGraph(g, h) == g = h \/ Seen(g) = Seen(h)

ValidSegment(type, name) ==
    HasField(type, name) /\ Types[type][name].kind \in {"struct", "slice", "ptr"}

\* The owners: the records at the end of the path less its last segment,
\* fanning out over sequences and pruning at nil pointers.
RECURSIVE Reached(_, _, _)
Reached(g, rv, path) ==
    IF rv.kind = "slice"
    THEN UNION {Reached(g, Reflect(Place(rv.place.base, Append(rv.place.sels, Idx(i))),
                                   "struct", rv.type), path) :
                    i \in 1..Len(ReadPlace(g, rv.place).elems)}
    ELSE IF ~ValidSegment(rv.type, path[1]) THEN {}
    ELSE IF Len(path) = 1 THEN {rv}
    ELSE LET fv == FieldOf(rv, path[1])
         IN IF fv.kind /= "ptr" THEN Reached(g, fv, Tail(path))
            ELSE IF ReadPlace(g, fv.place).isNil \/ ~IsStruct(fv.type) THEN {}
            ELSE Reached(g, Reflect(Place(ReadPlace(g, fv.place).addr, <<>>),
                                    "struct", fv.type), Tail(path))

\* Some record met on the way lacks the next segment as a struct, slice or
\* pointer field.
RECURSIVE Refused(_, _, _)
Refused(g, rv, path) ==
    IF rv.kind = "slice"
    THEN \E i \in 1..Len(ReadPlace(g, rv.place).elems) :
            Refused(g, Reflect(Place(rv.place.base, Append(rv.place.sels, Idx(i))),
                               "struct", rv.type), path)
    ELSE IF ~ValidSegment(rv.type, path[1]) THEN TRUE
    ELSE IF Len(path) = 1 THEN FALSE
    ELSE LET fv == FieldOf(rv, path[1])
         IN IF fv.kind /= "ptr" THEN Refused(g, fv, Tail(path))
            ELSE IF ReadPlace(g, fv.place).isNil THEN FALSE
            ELSE IF ~IsStruct(fv.type) THEN TRUE
            ELSE Refused(g, Reflect(Place(ReadPlace(g, fv.place).addr, <<>>),
                                    "struct", fv.type), Tail(path))

\* The reference and foreign-key fields of a relation: the two tags when both
\* are given, else <field>ID and ID when the owner has a <field>ID, else ID
\* and <owner type>ID.
Convention(type, field) ==
    LET tags == Types[type][field]
    IN IF tags.references /= "" /\ tags.foreignKey /= ""
       THEN <<tags.references, tags.foreignKey>>
       ELSE IF HasField(type, field \o "ID") THEN <<field \o "ID", "ID">>
       ELSE <<"ID", type \o "ID">>

Resolvable(type, field) ==
    /\ HasField(type, Convention(type, field)[1])
    /\ HasField(Types[type][field].elem, Convention(type, field)[2])

Last(path) == path[Len(path)]

\* The rows of a fetch whose foreign key is `key`, in fetch order.
Matching(rows, fk, key) == SelectSeq(rows, LAMBDA row : row.f[fk] = key)

\* The reference value of an owner: nil, or a key.
ReferenceOf(g, owner, path) ==
    LET refv == FieldOf(owner, Convention(owner.type, Last(path))[1])
        ref == ReadPlace(g, refv.place)
    IN IF refv.kind = "ptr" THEN ref ELSE IntPtr(ref)

\* No sequence slot of an owner with a reference holds anything but rows of
\* the fetch just made.
NothingAccumulated ==
    \A owner \in Reached(graph, RootOf(graph), pcall'.path) :
        LET slot == FieldOf(owner, Last(pcall'.path))
        IN (slot.kind = "slice" /\ ~ReferenceOf(graph, owner, pcall'.path).isNil)
            => Range(ReadPlace(graph', slot.place).elems) \subseteq Range(pcall'.outcome.rows)

\* The graph that one more Preload with the same path leaves, its fetch
\* returning the same rows.
Again == Preload(graph', PreloadQuery, pcall'.path, pcall'.outcome).g

AgainOnAnyGraphStep ==
    (Called /\ pcall'.status = "ok")
        => /\ NothingAccumulated
           /\ SameGraph(Again, graph')

RECURSIVE Passed(_, _, _)
Passed(g, rv, path) ==
    IF rv.kind = "slice"
    THEN UNION {Passed(g, Reflect(Place(rv.place.base, Append(rv.place.sels, Idx(i))),
                                  "struct", rv.type), path) :
                    i \in 1..Len(ReadPlace(g, rv.place).elems)}
    ELSE IF ~ValidSegment(rv.type, path[1]) \/ Len(path) = 1 THEN {}
    ELSE LET fv == FieldOf(rv, path[1])
         IN {fv.place} \cup
            (IF fv.kind /= "ptr" THEN Passed(g, fv, Tail(path))
             ELSE IF ReadPlace(g, fv.place).isNil \/ ~IsStruct(fv.type) THEN {}
             ELSE Passed(g, Reflect(Place(ReadPlace(g, fv.place).addr, <<>>),
                                    "struct", fv.type), Tail(path)))

\* Place p is place s or lies inside it.
Inside(p, s) ==
    /\ p.base = s.base
    /\ Len(s.sels) <= Len(p.sels)
    /\ SubSeq(p.sels, 1, Len(s.sels)) = s.sels

\* No relation slot the call is to fill lies on the way to an owner, and none
\* is its owner's reference field.
OffThePath(g, path) ==
    \A owner \in Reached(g, RootOf(g), path) :
        /\ Convention(owner.type, Last(path))[1] /= Last(path)
        /\ \A p \in Passed(g, RootOf(g), path) :
                ~Inside(p, FieldOf(owner, Last(path)).place)

AgainStep ==
    (Called /\ pcall'.status = "ok" /\ OffThePath(graph, pcall'.path))
        => /\ NothingAccumulated
           /\ SameGraph(Again, graph')

SlotFilled(owner) ==
    LET path == pcall'.path
        slot == FieldOf(owner, Last(path))
        ref == ReferenceOf(graph, owner, path)
        matching == Matching(pcall'.outcome.rows, Convention(owner.type, Last(path))[2], ref.n)
        was == ReadPlace(graph, slot.place)
        now == ReadPlace(graph', slot.place)
    IN IF ref.isNil THEN now = was
       ELSE CASE slot.kind = "slice" -> now.elems = matching
              [] slot.kind = "ptr" ->
                    matching /= <<>> =>
                        /\ ~now.isNil
                        /\ ReadPlace(graph', Place(now.addr, <<>>)) \in Range(matching)
              [] OTHER -> matching /= <<>> => now \in Range(matching)

FanOutFanInStep ==
    (Called /\ pcall'.status = "ok")
        => \A owner \in Reached(graph, RootOf(graph), pcall'.path) : SlotFilled(owner)

\* C8 (fan-out/fan-in): after a successful Preload every owner with a non-nil
\* reference holds in its relation slot the fetched records whose foreign key
\* equals that reference (all of them, in fetch order, in a sequence slot; one
\* of them in a singular slot), and the slot of an owner with a nil reference
\* is as it was.
FanOutFanIn == [][FanOutFanInStep]_vars

\* The call failed before it modified the graph or issued a query.
FailedEarly ==
    /\ pcall'.status = "panic"
    /\ graph' = graph
    /\ pcall'.issued = <<>>

\* The graph with every sequence slot emptied.
RECURSIVE Emptied(_)
Emptied(v) ==
    [v EXCEPT !.f = [name \in DOMAIN v.f |->
        CASE Types[v.type][name].kind = "slice" -> NilSlice
          [] Types[v.type][name].kind = "struct" -> Emptied(v.f[name])
          [] OTHER -> v.f[name]]]

EmptiedGraph(g) ==
    [root |-> IF g.root.kind = "slice"
              THEN [i \in 1..Len(g.root.v.elems) |-> Emptied(g.root.v.elems[i])]
              ELSE <<Emptied(g.root.v)>>,
     heap |-> [a \in 1..Len(g.heap) |-> Emptied(g.heap[a])]]

\* The batch fetch failed: its error is returned, and nothing but sequence
\* slots has changed.
FetchFailureStep ==
    (Called /\ pcall'.fetched /\ pcall'.outcome.err /= "")
        => /\ pcall'.status = "error"
           /\ pcall'.err = pcall'.outcome.err
           /\ EmptiedGraph(graph') = EmptiedGraph(graph)

\* By the record types alone, a segment of the path is no struct, slice or
\* pointer field.
RECURSIVE InvalidPath(_, _)
InvalidPath(type, path) ==
    \/ ~ValidSegment(type, path[1])
    \/ Len(path) > 1 /\ InvalidPath(Types[type][path[1]].elem, Tail(path))

RECURSIVE OwnerType(_, _)
OwnerType(type, path) ==
    IF Len(path) = 1 THEN type ELSE OwnerType(Types[type][path[1]].elem, Tail(path))

SchemaMismatch(type, path) ==
    InvalidPath(type, path) \/ ~Resolvable(OwnerType(type, path), Last(path))

FailsOnAnyMismatchStep ==
    /\ (Called /\ SchemaMismatch(graph.root.type, pcall'.path)) => FailedEarly
    /\ FetchFailureStep

\* C9 as stated: whenever a path segment is no struct, slice or pointer field,
\* or the reference or foreign-key field cannot be resolved, Preload fails
\* before it modifies the graph or issues a query; and a failed batch fetch
\* returns its error with at most sequence slots reset.
FailsOnAnyMismatch == [][FailsOnAnyMismatchStep]_vars

\* The mismatch is met: a record reached lacks its segment, or there are
\* owners and their reference or foreign key cannot be resolved.
MismatchMet ==
    LET path == pcall'.path
        owners == Reached(graph, RootOf(graph), path)
    IN \/ Refused(graph, RootOf(graph), path)
       \/ \E owner \in owners : ~Resolvable(owner.type, Last(path))

FailureSemanticsStep ==
    /\ (Called /\ MismatchMet) => FailedEarly
    /\ (Called /\ SchemaMismatch(graph.root.type, pcall'.path) /\ ~MismatchMet)
        => /\ pcall'.status = "ok"
           /\ graph' = graph
           /\ pcall'.issued = <<>>
    /\ FetchFailureStep

\* C9 (failure semantics), amended: when the traversal reaches a record on
\* which the next path segment is no struct, slice or pointer field, or
\* reaches owners whose reference or foreign-key field cannot be resolved,
\* Preload fails before it modifies the graph or issues a query; a mismatch
\* that no reached record meets goes unnoticed, and the call succeeds without
\* touching the graph; a failed batch fetch returns its error with at most
\* sequence slots reset.
FailureSemantics == [][FailureSemanticsStep]_vars

\* C9's case: Preload "Post.Bogus" on two Comments has panicked on the Post
\* the second points to, the first having no Post, and has left the graph
\* as it was.
FailureSemanticsWitness ==
    /\ pcall.status = "panic"
    /\ pcall.path = <<"Post", "Bogus">>
    /\ pcall.issued = <<>>
    /\ graph.root.type = "Comment"
    /\ graph.root.kind = "slice"
    /\ Len(graph.root.v.elems) = 2
    /\ graph.root.v.elems[1].f.Post = NilPtr
    /\ graph.root.v.elems[2].f.Post = PtrTo(2)
    /\ graph.heap = InitHeap(TRUE)

\* The record a singular relation slot holds: the one its pointer leads to,
\* or the value itself.
Held(g, slot) ==
    IF slot.kind = "ptr"
    THEN ReadPlace(g, Place(ReadPlace(g, slot.place).addr, <<>>))
    ELSE ReadPlace(g, slot.place)

\* The singular slot of an owner holds the first of the fetched records that
\* match the owner's reference, when there are several.
HoldsFirstMatch(owner) ==
    LET path == pcall'.path
        slot == FieldOf(owner, Last(path))
        ref == ReferenceOf(graph, owner, path)
        matching == Matching(pcall'.outcome.rows, Convention(owner.type, Last(path))[2], ref.n)
    IN (slot.kind /= "slice" /\ ~ref.isNil /\ Len(matching) > 1)
        => /\ slot.kind = "ptr" => ~ReadPlace(graph', slot.place).isNil
           /\ Held(graph', slot) = Head(matching)

FirstMatchWinsStep ==
    (Called /\ pcall'.status = "ok" /\ pcall'.fetched)
        => \A owner \in Reached(graph, RootOf(graph), pcall'.path) :
                HoldsFirstMatch(owner)

\* C11 (singular-slot fan-in): when more than one fetched record matches the
\* reference of an owner whose relation slot is a pointer or a plain value,
\* the slot holds after Preload the first of the matching records in fetch
\* order.
FirstMatchWins == [][FirstMatchWinsStep]_vars

\* A sequence without its repeats, each value where it first occurs.
RECURSIVE FirstSeen(_)
FirstSeen(seq) ==
    IF seq = <<>> THEN <<>>
    ELSE LET front == SubSeq(seq, 1, Len(seq) - 1)
         IN IF seq[Len(seq)] \in Range(front) THEN FirstSeen(front)
            ELSE Append(FirstSeen(front), seq[Len(seq)])

\* The references of the preload targets of a call, nil ones too, in the
\* order of the traversal.
References(g, path) ==
    LET targets == traversePreloadTarget(g, RootOf(g), path).targets
    IN [i \in 1..Len(targets) |-> ReferenceOf(g, targets[i].schema, path)]

\* The distinct non-nil reference values, in order of first occurrence.
Keys(g, path) ==
    LET given == SelectSeq(References(g, path), LAMBDA ref : ~ref.isNil)
    IN FirstSeen([i \in 1..Len(given) |-> given[i].n])

\* The column of the foreign key of a relation: the db tag of the foreign-key
\* field, or its name in snake case.
ForeignKeyColumn(type, field) ==
    LET fk == Types[Types[type][field].elem][Convention(type, field)[2]]
    IN IF fk.db /= "" THEN Column(fk.db) ELSE SnakeCase(Convention(type, field)[2])

\* The one query of a call with the given keys.
BatchQuery(type, path, keys) ==
    Where(EmptyHeap, PreloadQuery,
          <<In(I(ForeignKeyColumn(OwnerType(type, path), Last(path))), keys)>>).q

\* The keys of any call: none when the path is invalid or the owners have no
\* reference field, for then no target has a reference.
KeysOfAnyCall(g, path) ==
    IF InvalidPath(g.root.type, path) THEN <<>>
    ELSE IF ~HasField(OwnerType(g.root.type, path),
                      Convention(OwnerType(g.root.type, path), Last(path))[1])
    THEN <<>>
    ELSE Keys(g, path)

BatchFetchOnEveryCallStep ==
    Called
        => /\ Len(pcall'.issued) <= 1
           /\ IF KeysOfAnyCall(graph, pcall'.path) = <<>>
              THEN pcall'.issued = <<>> /\ pcall'.status = "ok"
              ELSE /\ Len(pcall'.issued) = 1
                   /\ pcall'.issued
                            = <<BatchQuery(graph.root.type, pcall'.path,
                                           Keys(graph, pcall'.path))>>

BatchFetchStep ==
    Called
        => /\ Len(pcall'.issued) <= 1
           /\ pcall'.status /= "panic"
                => IF Keys(graph, pcall'.path) = <<>>
                   THEN pcall'.issued = <<>> /\ pcall'.status = "ok"
                   ELSE pcall'.issued
                            = <<BatchQuery(graph.root.type, pcall'.path,
                                           Keys(graph, pcall'.path))>>

InitChanges == ChangesInit /\ QueryIdle /\ PreloadIdle
SpecChanges == InitChanges /\ [][ChangesNext]_vars

InitQuery == ChangesIdle /\ QueryInit(MaxCalls) /\ PreloadIdle
SpecQuery == InitQuery /\ [][QueryNext]_vars

InitCond == ChangesIdle /\ QueryInit(MaxCondCalls) /\ PreloadIdle
SpecCond == InitCond /\ [][CondNext]_vars

InitJoin == ChangesIdle /\ QueryInit(MaxJoinCalls) /\ PreloadIdle
SpecJoin == InitJoin /\ [][JoinNext]_vars

InitPreload == ChangesIdle /\ QueryIdle /\ PreloadInit
SpecPreload == InitPreload /\ [][PreloadNext]_vars

====
